---- MODULE Spec2Model ----
(***************************************************************************)
(* The judging engine of snowchains (src/src/judge.rs, with the per-case   *)
(* executor of src/src/judging/simple.rs, which has the same shape).       *)
(*                                                                         *)
(* One orchestrator (the function judge) runs the compilation gate, loads  *)
(* the cases and judges them in order.  For each case judge_one creates a  *)
(* channel, starts a worker thread that runs run_program and blocks on the *)
(* channel, with a bound of timelimit + 50 ms when the case has a limit.   *)
(* Time is a model variable: Tick lets it pass, and never past the instant *)
(* at which a pending recv_timeout expires.                                *)
(*                                                                         *)
(* Spec is the run of judge with a compilation command that has no         *)
(* src_and_bin.  SpecGate is the same run for every configuration of the   *)
(* compilation step (execute_as_compilation_command), on case files of at  *)
(* most one case.  SpecDetails is eprint_details of judging/simple.rs, run *)
(* on outputs whose contents have sizes around its thresholds.             *)
(***************************************************************************)
EXTENDS Integers, Sequences, FiniteSets

\* ------------------------------------------------------------------ bounds

\* Largest number of cases of a loaded case file.
NumCases == 2

\* Granularity of Tick in milliseconds; limits are multiples of it.
Quantum == 25

\* Bytes a pipe between the worker and its child holds before a write to it
\* blocks.
PipeCapacity == 2

\* Largest number of bytes of an input, and of what a child writes to its
\* stdout and to its stderr.
MaxBytes == 3

\* Modification times of the source and the binary are 1..MaxMtime.
MaxMtime == 2

\* Elapsed times of MaxElapsed ms and more are recorded as MaxElapsed; it is
\* larger than every limit of Limits, so "t > timelimit" is decided exactly.
MaxElapsed == 50

\* --------------------------------------------------------------- constants

\* judge.rs:56  rx.recv_timeout(Duration::from_millis(timelimit + 50))
Grace == 50

\* judging/simple.rs:107  const THRESHOLD_TO_OMIT: usize = 1024;
THRESHOLD_TO_OMIT == 1024

\* ---------------------------------------------------------------- helpers

Min(a, b) == IF a <= b THEN a ELSE b

\* Option<u64>: None is the empty sequence, Some(x) the sequence <<x>>.
None == <<>>
Some(x) == <<x>>
is_some(o) == Len(o) = 1
unwrap(o) == o[1]

\* ------------------------------------------------------------ input space

\* Expected outputs of a case ("" means: not compared), what a child may
\* write to its stdout and stderr, and its exit codes (0 is success).
Expecteds == {"", "a"}
Stdouts == {"", "a", "b"}
Stderrs == {"", "e"}
ExitCodes == {0, 1}
Limits == {None, Some(Quantum)}

\* Case k of a case file: its input is a text that names the case.
Case(k, expected, timelimit) ==
    [input |-> k, expected |-> expected, timelimit |-> timelimit]

CaseSets ==
    UNION { [1..n -> Expecteds \X Limits] : n \in 0..NumCases }

\* ExitStatus::success
status_success(status) == status = 0

\* ------------------------------------------------------------- JudgeOutput

\* Fields a variant does not have hold Absent (0 for numbers).
Absent == "n/a"

Ac(t, input, stdout, stderr) ==
    [tag |-> "Ac", t |-> t, input |-> input, expected |-> Absent,
     stdout |-> stdout, stderr |-> stderr, status |-> 0]

Tle(timelimit, input, expected) ==
    [tag |-> "Tle", t |-> timelimit, input |-> input, expected |-> expected,
     stdout |-> Absent, stderr |-> Absent, status |-> 0]

Wa(t, input, expected, stdout, stderr) ==
    [tag |-> "Wa", t |-> t, input |-> input, expected |-> expected,
     stdout |-> stdout, stderr |-> stderr, status |-> 0]

Re(t, input, expected, stdout, stderr, status) ==
    [tag |-> "Re", t |-> t, input |-> input, expected |-> expected,
     stdout |-> stdout, stderr |-> stderr, status |-> status]

\* The value of a message that carries an error instead of a JudgeOutput.
NoOutput ==
    [tag |-> "none", t |-> 0, input |-> 0, expected |-> Absent,
     stdout |-> Absent, stderr |-> Absent, status |-> 0]

\* success with WrongAnswer taken for a pass.
success_WaPasses(output) == output.tag \in {"Ac", "Wa"}

\* JudgeOutput::success
success(output) == output.tag = "Ac"

\* Classify with the exit status looked at before the time limit.
Classify_StatusFirst(case, t, status, stdout, stderr) ==
    IF ~status_success(status)
    THEN Re(t, case.input, case.expected, stdout, stderr, status)
    ELSE IF is_some(case.timelimit) /\ t > unwrap(case.timelimit)
    THEN Tle(unwrap(case.timelimit), case.input, case.expected)
    ELSE IF case.expected = "" \/ case.expected = stdout
    THEN Ac(t, case.input, stdout, stderr)
    ELSE Wa(t, case.input, case.expected, stdout, stderr)

\* Classify without the comparison of stdout with expected.
Classify_NoCompare(case, t, status, stdout, stderr) ==
    IF is_some(case.timelimit) /\ t > unwrap(case.timelimit)
    THEN Tle(unwrap(case.timelimit), case.input, case.expected)
    ELSE IF status_success(status)
    THEN Ac(t, case.input, stdout, stderr)
    ELSE Re(t, case.input, case.expected, stdout, stderr, status)

\* Classify with a missing limit read as a limit of 0 ms.
Classify_DefaultLimit(case, t, status, stdout, stderr) ==
    LET timelimit == IF is_some(case.timelimit)
                     THEN unwrap(case.timelimit) ELSE 0
    IN  IF t > timelimit
        THEN Tle(timelimit, case.input, case.expected)
        ELSE IF status_success(status)
                /\ (case.expected = "" \/ case.expected = stdout)
        THEN Ac(t, case.input, stdout, stderr)
        ELSE IF status_success(status)
        THEN Wa(t, case.input, case.expected, stdout, stderr)
        ELSE Re(t, case.input, case.expected, stdout, stderr, status)

\* Classify that compares the output before it looks at the exit status.
Classify_CompareFirst(case, t, status, stdout, stderr) ==
    IF is_some(case.timelimit) /\ t > unwrap(case.timelimit)
    THEN Tle(unwrap(case.timelimit), case.input, case.expected)
    ELSE IF case.expected = "" \/ case.expected = stdout
    THEN Ac(t, case.input, stdout, stderr)
    ELSE IF status_success(status)
    THEN Wa(t, case.input, case.expected, stdout, stderr)
    ELSE Re(t, case.input, case.expected, stdout, stderr, status)

\* The classification at the end of run_program.
Classify(case, t, status, stdout, stderr) ==
    IF is_some(case.timelimit) /\ t > unwrap(case.timelimit)
    THEN Tle(unwrap(case.timelimit), case.input, case.expected)
    ELSE IF status_success(status)
            /\ (case.expected = "" \/ case.expected = stdout)
    THEN Ac(t, case.input, stdout, stderr)
    ELSE IF status_success(status)
    THEN Wa(t, case.input, case.expected, stdout, stderr)
    ELSE Re(t, case.input, case.expected, stdout, stderr, status)

\* RecvTimeout with the grace added twice.
RecvTimeout_TwiceGrace(timelimit) == timelimit + Grace + Grace

\* The bound of the orchestrator's wait for a case with a limit.
RecvTimeout(timelimit) == timelimit + Grace

\* ----------------------------------------------------- the compilation step

\* What a path of src_and_bin looks like to the gate: whether metadata()
\* returns Ok, and the time modified() returns (None: it returns Err).
File(meta, modified) == [meta |-> meta, modified |-> modified]

Files ==
    {File(FALSE, None)}
        \cup {File(TRUE, m) : m \in {None} \cup {Some(t) : t \in 1..MaxMtime}}

\* CommandParameters, as far as the gate reads it: src_and_bin.
CommandParameters(src_and_bin) == [src_and_bin |-> src_and_bin]

\* The state of the compilation step: the compilation_command given to
\* judge, whether the directory of bin exists, and the record of what the
\* gate did (runs: how often the command was run; skipped: "is up to
\* date" was printed; created: create_dir_all made the directory;
\* dir_at_run: the directory existed when the command was started; status:
\* the exit status of the command).
Gate(compilation_command, dir) ==
    [compilation_command |-> compilation_command, dir |-> dir,
     runs |-> 0, skipped |-> FALSE, created |-> FALSE,
     dir_at_run |-> FALSE, status |-> 0]

\* A command without src_and_bin, the only configuration of Spec.
PlainGate == Gate(Some(CommandParameters(None)), TRUE)

\* Every configuration: no command, a command without src_and_bin, and a
\* command with it, for every look of src and bin.  A bin whose metadata
\* can be read lies in a directory that exists.
Gates ==
    {Gate(None, TRUE), PlainGate}
        \cup {g \in {Gate(Some(CommandParameters(Some(<<src, bin>>))), dir) :
                         src \in Files, bin \in Files, dir \in BOOLEAN} :
                 unwrap(unwrap(g.compilation_command).src_and_bin)[2].meta
                     => g.dir}

\* up_to_date with "not newer" in place of "older".
up_to_date_OrEqual(src, bin) ==
    /\ src.meta /\ bin.meta
    /\ is_some(src.modified) /\ is_some(bin.modified)
    /\ unwrap(src.modified) <= unwrap(bin.modified)

\* Both metadata and both times can be read and t1 < t2.
up_to_date(src, bin) ==
    /\ src.meta /\ bin.meta
    /\ is_some(src.modified) /\ is_some(bin.modified)
    /\ unwrap(src.modified) < unwrap(bin.modified)

\* The gate returns early: src_and_bin is given and bin is up to date.
skips(params) ==
    /\ is_some(params.src_and_bin)
    /\ up_to_date(unwrap(params.src_and_bin)[1], unwrap(params.src_and_bin)[2])

\* missing_dir that never asks for the directory.
missing_dir_Never(params, dir) == FALSE

\* The gate calls create_dir_all: src_and_bin is given, one of the two
\* metadata cannot be read, and the directory of bin does not exist.
missing_dir(params, dir) ==
    /\ is_some(params.src_and_bin)
    /\ ~(unwrap(params.src_and_bin)[1].meta /\ unwrap(params.src_and_bin)[2].meta)
    /\ ~dir

\* ------------------------------------------------ the details of an output

\* The sizes in bytes of the contents eprint_details is run on: the sizes
\* on both sides of each comparison it makes, and 20 MB.  A content is
\* stood for by its size.
Sizes ==
    {0, 1, THRESHOLD_TO_OMIT, THRESHOLD_TO_OMIT + 1,
     10 * 1024, 10 * 1024 + 1, 10 * 1024 * 1024, 10 * 1024 * 1024 + 1,
     20 * 1024 * 1024}

num_bytes(content) == content

\* An output as eprint_details reads it: its variant and its contents.  A
\* content the variant does not have is given as 0 and is not read.
Sized(tag, input, expected, stdout, stderr) ==
    [tag |-> tag, input |-> input, expected |-> expected,
     stdout |-> stdout, stderr |-> stderr]

\* The outputs eprint_details is run on.
DetailOutputs ==
    {Sized("Ac", input, 0, stdout, stderr) :
        input \in Sizes, stdout \in Sizes, stderr \in Sizes}
    \cup {Sized("Tle", input, expected, 0, 0) :
             input \in Sizes, expected \in Sizes}
    \cup {Sized(tag, c[1], c[2], c[3], c[4]) :
             tag \in {"Wa", "Re"}, c \in Sizes \X Sizes \X Sizes \X Sizes}

\* A line written to standard error: the label of a section ("head:"), the
\* word EMPTY, the word OMITTED with a size n in a unit, or a content of n
\* bytes handed to eprintln_trimming_trailing_newline.
Line(kind, text, n) == [kind |-> kind, text |-> text, n |-> n]

eprint_size(size) ==
    IF size > 10 * 1024 * 1024
    THEN <<Line("OMITTED", "MB", size \div (1024 * 1024))>>
    ELSE IF size > 10 * 1024
    THEN <<Line("OMITTED", "KB", size \div 1024)>>
    ELSE <<Line("OMITTED", "B", size)>>

\* eprint_section that omits a content from 10 KB on only.
eprint_section_TenKB(head, content) ==
    <<Line("label", head, 0)>>
        \o (IF num_bytes(content) = 0
            THEN <<Line("EMPTY", "", 0)>>
            ELSE IF num_bytes(content) > 10 * 1024
            THEN eprint_size(num_bytes(content))
            ELSE <<Line("content", "", num_bytes(content))>>)

eprint_section(head, content) ==
    <<Line("label", head, 0)>>
        \o (IF num_bytes(content) = 0
            THEN <<Line("EMPTY", "", 0)>>
            ELSE IF num_bytes(content) > THRESHOLD_TO_OMIT
            THEN eprint_size(num_bytes(content))
            ELSE <<Line("content", "", num_bytes(content))>>)

\* eprint_section_unless_empty that shows an empty content as EMPTY.
eprint_section_unless_empty_Always(head, content) ==
    IF num_bytes(content) > THRESHOLD_TO_OMIT
    THEN eprint_size(num_bytes(content))
    ELSE IF num_bytes(content) > 0
    THEN <<Line("label", head, 0), Line("content", "", num_bytes(content))>>
    ELSE <<Line("label", head, 0), Line("EMPTY", "", 0)>>

eprint_section_unless_empty(head, content) ==
    IF num_bytes(content) > THRESHOLD_TO_OMIT
    THEN eprint_size(num_bytes(content))
    ELSE IF num_bytes(content) > 0
    THEN <<Line("label", head, 0), Line("content", "", num_bytes(content))>>
    ELSE <<>>

eprint_details(output) ==
    CASE output.tag = "Ac" ->
            eprint_section("input", output.input)
                \o eprint_section("stdout", output.stdout)
                \o eprint_section_unless_empty("stderr", output.stderr)
      [] output.tag = "Tle" ->
            eprint_section("input", output.input)
                \o eprint_section_unless_empty("expected", output.expected)
      [] output.tag = "Wa" ->
            eprint_section("input", output.input)
                \o eprint_section("expected", output.expected)
                \o eprint_section("stdout", output.stdout)
                \o eprint_section_unless_empty("stderr", output.stderr)
      [] output.tag = "Re" ->
            eprint_section("input", output.input)
                \o eprint_section_unless_empty("expected", output.expected)
                \o eprint_section_unless_empty("stdout", output.stdout)
                \o eprint_section("stderr", output.stderr)

\* ------------------------------------------------------------------ state

VARIABLES
    pc,          \* where the orchestrator (judge) is
    cases,       \* the loaded cases, in file order
    i,           \* number (1-based) of the case judge_one is working on
    outputs,     \* the JudgeOutputs collected so far
    origin,      \* for each collected output: what produced it
    worker,      \* per case: the worker thread's position and its locals
    chan,        \* per case: the mpsc channel of judge_one
    waited,      \* ms the current recv_timeout has been waiting
    stdout_log,  \* the titles and the summary line printed to standard output
    stderr_log,  \* the dump of the cases printed to standard error
    result,      \* what judge returned
    gate,        \* the compilation step: its configuration, the files it
                 \* looks at, and what execute_as_compilation_command did
    detail,      \* eprint_details: the output it is called on and its lines
    argv,        \* CommandParameters::new: the command string and its result
    proc,        \* a worker and its child at the pipes between them
    clock        \* the elapsed time of a child, its limit and the t made of it

vars == <<pc, cases, i, outputs, origin, worker, chan, waited,
          stdout_log, stderr_log, result, gate, detail, argv, proc, clock>>

NoWorker == [pc |-> "unborn", t |-> 0, status |-> 0,
             stdout |-> Absent, stderr |-> Absent]

NoChannel == [msg |-> <<>>, tx |-> FALSE, rx |-> FALSE]

Pending == [kind |-> "pending", n |-> 0, args |-> <<>>]

\* ------------------------------------------------------ the elapsed time

\* The elapsed times a child is measured with: whole seconds (as_secs) and
\* the nanoseconds beyond them (subsec_nanos), on both sides of millisecond
\* marks.  With them every number of the computation of t stays below 2^31,
\* far from the 2^64 at which the u64 of the code wraps.
ElapsedSecs == {0, 1}

ElapsedNanos ==
    {0, 1, 999999, 1000000, 1000001, 24999999, 25000000, 25000001,
     999000000, 999000001, 999999999}

\* The limits in ms the elapsed times are compared with.
TimeLimits == {0, 1, 25, 26, 999, 1000, 1001, 1025, 1999, 2000}

\* elapsed_millis without the rounding up.
elapsed_millis_Truncated(secs, subsec_nanos) ==
    (1000000000 * secs + subsec_nanos) \div 1000000

\* judge.rs:35, the t that run_program compares with the limit.
elapsed_millis(secs, subsec_nanos) ==
    (1000000000 * secs + subsec_nanos + 999999) \div 1000000

\* ------------------------------------------------- CommandParameters::new

\* Longest command string given to CommandParameters::new.
MaxCommandLen == 4

\* The characters of the command strings: two plain ones, a blank and one of
\* the characters of SpecialChars.  A string is a sequence of characters.
CommandChars == {"a", "b", " ", "&"}

Commands == UNION {[1..n -> CommandChars] : n \in 0..MaxCommandLen}

\* judge.rs:120, the characters that make a command a matter of the shell.
SpecialChars ==
    {"@", "#", "$", "^", "&", "*", ";", "|", "?", "\\", "<", ">", "(", ")",
     "[", "]", "{", "}", "'", "\""}

\* char::is_whitespace, for the characters of the strings above.
White_Space == {" ", "\t", "\n", "\r"}

is_whitespace(c) == c \in White_Space

\* command.find(p).is_some()
find(command, chars) == \E n \in 1..Len(command) : command[n] \in chars

\* str::split_whitespace: the maximal runs of characters that are no
\* whitespace, in order.
RECURSIVE split_whitespace(_)
split_whitespace(s) ==
    IF s = <<>>
    THEN <<>>
    ELSE IF is_whitespace(s[1])
    THEN split_whitespace(Tail(s))
    ELSE LET rest == split_whitespace(Tail(s)) IN
         IF Len(s) = 1 \/ is_whitespace(s[2])
         THEN <<<<s[1]>>>> \o rest
         ELSE <<<<s[1]>> \o rest[1]>> \o Tail(rest)

\* new that splits at whitespace before it looks for special characters.
new_SplitFirst(command, windows) ==
    IF find(command, White_Space)
    THEN LET it == split_whitespace(command) IN
         [arg0 |-> IF it = <<>> THEN <<>> ELSE it[1],
          rest_args |-> IF it = <<>> THEN <<>> ELSE Tail(it)]
    ELSE IF find(command, SpecialChars)
    THEN [arg0 |-> IF windows THEN <<"c", "m", "d">> ELSE <<"s", "h">>,
          rest_args |-> <<IF windows THEN <<"/", "C">> ELSE <<"-", "c">>,
                          command>>]
    ELSE [arg0 |-> command, rest_args |-> <<>>]

\* CommandParameters::new, as far as arg0 and rest_args go: the shell with
\* the whole command; or the words of the command, an empty arg0 standing in
\* (unwrap_or_default) when there is no word; or the command as it is.
new(command, windows) ==
    IF find(command, SpecialChars)
    THEN [arg0 |-> IF windows THEN <<"c", "m", "d">> ELSE <<"s", "h">>,
          rest_args |-> <<IF windows THEN <<"/", "C">> ELSE <<"-", "c">>,
                          command>>]
    ELSE IF find(command, White_Space)
    THEN LET it == split_whitespace(command) IN
         [arg0 |-> IF it = <<>> THEN <<>> ELSE it[1],
          rest_args |-> IF it = <<>> THEN <<>> ELSE Tail(it)]
    ELSE [arg0 |-> command, rest_args |-> <<>>]

\* CommandParameters::new is not under study.
NoArgv == [command |-> <<>>, windows |-> FALSE, params |-> None]

\* No worker and child at their pipes are under study.
NoProc == [wpc |-> "none", cpc |-> "none", input |-> 0, stdin |-> 0,
           stdin_open |-> FALSE, to_read |-> 0, out |-> 0, err |-> 0,
           stdout |-> 0, stderr |-> 0]

\* No elapsed time is under study.
NoClock == [secs |-> 0, subsec_nanos |-> 0, timelimit |-> 0, t |-> None]

\* eprint_details has not been called.
NoDetail == [output |-> Sized(Absent, 0, 0, 0, 0), lines |-> <<>>]

Init ==
    /\ pc = "compile"
    /\ cases = <<>>
    /\ i = 1
    /\ outputs = <<>>
    /\ origin = <<>>
    /\ worker = [k \in 1..NumCases |-> NoWorker]
    /\ chan = [k \in 1..NumCases |-> NoChannel]
    /\ waited = 0
    /\ stdout_log = <<>>
    /\ stderr_log = <<>>
    /\ result = Pending
    /\ gate = PlainGate
    /\ detail = NoDetail
    /\ argv = NoArgv
    /\ proc = NoProc
    /\ clock = NoClock

\* Init for every configuration of the compilation step.
InitGate ==
    /\ pc = "compile"
    /\ cases = <<>>
    /\ i = 1
    /\ outputs = <<>>
    /\ origin = <<>>
    /\ worker = [k \in 1..NumCases |-> NoWorker]
    /\ chan = [k \in 1..NumCases |-> NoChannel]
    /\ waited = 0
    /\ stdout_log = <<>>
    /\ stderr_log = <<>>
    /\ result = Pending
    /\ gate \in Gates
    /\ detail = NoDetail
    /\ argv = NoArgv
    /\ proc = NoProc
    /\ clock = NoClock

\* ------------------------------------------------- the orchestrator: judge

\* judge returns: the process ends, and with it every thread.
Return(value) ==
    /\ pc' = "done"
    /\ result' = value

\* execute_as_compilation_command that goes on after a failed command.
execute_as_compilation_command_Lenient(params) ==
    \/ /\ skips(params)
       /\ gate' = [gate EXCEPT !.skipped = TRUE]
       /\ pc' = "load"
       /\ UNCHANGED result
    \/ /\ ~skips(params)
       /\ \E status \in ExitCodes :
             /\ gate' = [gate EXCEPT !.runs = @ + 1, !.status = status,
                                     !.dir_at_run = gate.dir]
             /\ pc' = "load"
             /\ UNCHANGED result

\* CommandParameters::execute_as_compilation_command: the early return for
\* a binary that is up to date; else create_dir_all where it is called,
\* which may fail; else the command, which exits with a status or cannot
\* be run.
execute_as_compilation_command(params) ==
    \/ /\ skips(params)
       /\ gate' = [gate EXCEPT !.skipped = TRUE]
       /\ pc' = "load"
       /\ UNCHANGED result
    \/ /\ ~skips(params)
       /\ missing_dir(params, gate.dir)
       /\ Return([kind |-> "CompilationIo", n |-> 0, args |-> <<>>])
       /\ UNCHANGED gate
    \/ /\ ~skips(params)
       /\ LET made == missing_dir(params, gate.dir)
              g == [gate EXCEPT !.dir = gate.dir \/ made, !.created = made,
                                !.runs = @ + 1, !.dir_at_run = gate.dir \/ made]
          IN \/ \E status \in ExitCodes :
                   /\ gate' = [g EXCEPT !.status = status]
                   /\ IF status_success(status)
                      THEN /\ pc' = "load"
                           /\ UNCHANGED result
                      ELSE Return([kind |-> "CompilationFailure",
                                   n |-> status, args |-> <<status>>])
             \/ /\ gate' = g
                /\ Return([kind |-> "CompilationIo", n |-> 0, args |-> <<>>])

\* The compilation step of judge: nothing to do without a compilation
\* command, else execute_as_compilation_command, whose error judge returns.
Compile ==
    /\ pc = "compile"
    /\ \/ /\ ~is_some(gate.compilation_command)
          /\ pc' = "load"
          /\ UNCHANGED <<result, gate>>
       \/ /\ is_some(gate.compilation_command)
          /\ execute_as_compilation_command(unwrap(gate.compilation_command))
    /\ UNCHANGED <<cases, i, outputs, origin, worker, chan, waited,
                   stdout_log, stderr_log, detail, argv, proc, clock>>

\* Cases::load, num_cases and the start of the iteration over the cases; or
\* the case file cannot be loaded.
LoadFrom(sets) ==
    /\ pc = "load"
    /\ \/ /\ \E f \in sets :
                /\ cases' = [k \in DOMAIN f |-> Case(k, f[k][1], f[k][2])]
                /\ pc' = IF DOMAIN f = {} THEN "aggregate" ELSE "judge_one"
          /\ UNCHANGED result
       \/ /\ Return([kind |-> "Load", n |-> 0, args |-> <<>>])
          /\ UNCHANGED cases
    /\ UNCHANGED <<i, outputs, origin, worker, chan, waited,
                   stdout_log, stderr_log,
                   gate, detail, argv, proc, clock>>

\* Load of any case file of up to NumCases cases.
Load == LoadFrom(CaseSets)

\* Load of a case file of at most one case.
LoadShort == LoadFrom({f \in CaseSets : Cardinality(DOMAIN f) <= 1})

\* Spawn that also starts the worker of the next case ahead of its turn.
Spawn_Ahead ==
    /\ pc = "judge_one"
    /\ chan' = [chan EXCEPT ![i] = [msg |-> <<>>, tx |-> TRUE, rx |-> TRUE]]
    /\ worker' = [k \in DOMAIN worker |->
                     IF k = i \/ (k = i + 1 /\ k <= Len(cases))
                     THEN [worker[k] EXCEPT !.pc = "ready"]
                     ELSE worker[k]]
    /\ waited' = 0
    /\ pc' = "recv"
    /\ UNCHANGED <<cases, i, outputs, origin, stdout_log, stderr_log, result,
                   gate, detail, argv, proc, clock>>

\* judge_one up to its blocking receive: the channel, the worker thread, and
\* the call of recv_timeout or recv.
Spawn ==
    /\ pc = "judge_one"
    /\ chan' = [chan EXCEPT ![i] = [msg |-> <<>>, tx |-> TRUE, rx |-> TRUE]]
    /\ worker' = [worker EXCEPT ![i].pc = "ready"]
    /\ waited' = 0
    /\ pc' = "recv"
    /\ UNCHANGED <<cases, i, outputs, origin, stdout_log, stderr_log, result,
                   gate, detail, argv, proc, clock>>

\* Collect that raises the failure at the first output that is no success.
Collect_FailFast(output, how) ==
    /\ chan' = [chan EXCEPT ![i].rx = FALSE, ![i].msg = <<>>]
    /\ outputs' = Append(outputs, output)
    /\ origin' = Append(origin, how)
    /\ stdout_log' = Append(stdout_log, [kind |-> "title", n |-> i])
    /\ i' = i + 1
    /\ IF success(output)
       THEN /\ pc' = IF i = Len(cases) THEN "aggregate" ELSE "judge_one"
            /\ UNCHANGED result
       ELSE Return([kind |-> "TestFailed", n |-> 1, args |-> <<1>>])
    /\ UNCHANGED <<cases, worker, waited, stderr_log,
                   gate, detail, argv, proc, clock>>

\* Collect that prints no title.
Collect_Silent(output, how) ==
    /\ chan' = [chan EXCEPT ![i].rx = FALSE, ![i].msg = <<>>]
    /\ outputs' = Append(outputs, output)
    /\ origin' = Append(origin, how)
    /\ i' = i + 1
    /\ pc' = IF i = Len(cases) THEN "aggregate" ELSE "judge_one"
    /\ UNCHANGED <<cases, worker, waited, stdout_log, stderr_log, result,
                   gate, detail, argv, proc, clock>>

\* Collect that keeps the receiver of the case.
Collect_KeepRx(output, how) ==
    /\ chan' = [chan EXCEPT ![i].msg = <<>>]
    /\ outputs' = Append(outputs, output)
    /\ origin' = Append(origin, how)
    /\ stdout_log' = Append(stdout_log, [kind |-> "title", n |-> i])
    /\ i' = i + 1
    /\ pc' = IF i = Len(cases) THEN "aggregate" ELSE "judge_one"
    /\ UNCHANGED <<cases, worker, waited, stderr_log, result,
                   gate, detail, argv, proc, clock>>

\* judge_one returns Ok(output): rx is dropped, the closure of the loop
\* prints the title and the output is collected.
Collect(output, how) ==
    /\ chan' = [chan EXCEPT ![i].rx = FALSE, ![i].msg = <<>>]
    /\ outputs' = Append(outputs, output)
    /\ origin' = Append(origin, how)
    /\ stdout_log' = Append(stdout_log, [kind |-> "title", n |-> i])
    /\ i' = i + 1
    /\ pc' = IF i = Len(cases) THEN "aggregate" ELSE "judge_one"
    /\ UNCHANGED <<cases, worker, waited, stderr_log, result,
                   gate, detail, argv, proc, clock>>

\* Abort that keeps the error for later and goes on with the next case.
Abort_Continue(kind) ==
    /\ chan' = [chan EXCEPT ![i].rx = FALSE, ![i].msg = <<>>]
    /\ result' = [kind |-> kind, n |-> i, args |-> <<>>]
    /\ pc' = IF i = Len(cases) THEN "done" ELSE "judge_one"
    /\ i' = i + 1
    /\ outputs' = Append(outputs, NoOutput)
    /\ origin' = Append(origin, "error")
    /\ UNCHANGED <<cases, worker, waited, stdout_log, stderr_log,
                   gate, detail, argv, proc, clock>>

\* judge_one returns Err: collect stops at the first Err and judge returns it.
\* (n, the number of the case, is kept for the properties; the error itself
\* does not carry it.)
Abort(kind) ==
    /\ chan' = [chan EXCEPT ![i].rx = FALSE, ![i].msg = <<>>]
    /\ Return([kind |-> kind, n |-> i, args |-> <<>>])
    /\ UNCHANGED <<cases, i, outputs, origin, worker, waited,
                   stdout_log, stderr_log,
                   gate, detail, argv, proc, clock>>

\* The receive returns the worker's message.
Recv ==
    /\ pc = "recv"
    /\ chan[i].msg # <<>>
    /\ LET m == chan[i].msg[1] IN
         \/ /\ m.ok
            /\ Collect(m.val, "worker")
         \/ /\ ~m.ok
            /\ Abort("Io")

\* Timeout that runs the case again, with a new channel and a new worker.
Timeout_Retry ==
    /\ pc = "recv"
    /\ is_some(cases[i].timelimit)
    /\ chan[i].msg = <<>>
    /\ waited >= RecvTimeout(unwrap(cases[i].timelimit))
    /\ chan' = [chan EXCEPT ![i] = [msg |-> <<>>, tx |-> TRUE, rx |-> TRUE]]
    /\ worker' = [worker EXCEPT ![i] = [NoWorker EXCEPT !.pc = "ready"]]
    /\ waited' = 0
    /\ UNCHANGED <<pc, cases, i, outputs, origin, stdout_log, stderr_log,
                   result, gate, detail, argv, proc, clock>>

\* Timeout that never fires: a receive without a bound.
Timeout_Never ==
    /\ pc = "recv"
    /\ is_some(cases[i].timelimit)
    /\ chan[i].msg = <<>>
    /\ FALSE
    /\ UNCHANGED vars

\* recv_timeout returns Err(Timeout): nothing arrived within the bound.
Timeout ==
    /\ pc = "recv"
    /\ is_some(cases[i].timelimit)
    /\ chan[i].msg = <<>>
    /\ waited >= RecvTimeout(unwrap(cases[i].timelimit))
    /\ Collect(Tle(unwrap(cases[i].timelimit), cases[i].input,
                   cases[i].expected), "timeout")

\* The receive finds the channel empty and its sender gone: recv returns
\* Err(RecvError), which judge_one propagates; recv_timeout returns
\* Err(Disconnected), which unwrap_or_else(|_| ..) turns into Tle.
Disconnected ==
    /\ pc = "recv"
    /\ chan[i].msg = <<>>
    /\ ~chan[i].tx
    /\ \/ /\ is_some(cases[i].timelimit)
          /\ Collect(Tle(unwrap(cases[i].timelimit), cases[i].input,
                         cases[i].expected), "disconnected")
       \/ /\ ~is_some(cases[i].timelimit)
          /\ Abort("Recv")

\* The indices of the outputs that count as failures.
Failures(outs) == {k \in 1..Len(outs) : ~success(outs[k])}

\* What the dump writes to standard error for the cases of a set among
\* 1..n, in order: for each its title (eprint_title) and then its details
\* (eprint_details).
RECURSIVE Dump(_, _)
Dump(set, n) ==
    IF n = 0
    THEN <<>>
    ELSE Dump(set, n - 1)
             \o (IF n \in set
                 THEN <<[kind |-> "title", n |-> n],
                        [kind |-> "details", n |-> n]>>
                 ELSE <<>>)

\* Aggregate that passes the run when at least one case succeeded.
Aggregate_AnySuccess ==
    /\ pc = "aggregate"
    /\ LET num_failures == Cardinality(Failures(outputs)) IN
         \/ /\ num_failures < Len(outputs) \/ Len(outputs) = 0
            /\ stdout_log' = Append(stdout_log,
                                    [kind |-> "summary", n |-> Len(cases)])
            /\ Return([kind |-> "Ok", n |-> 0, args |-> <<>>])
            /\ UNCHANGED stderr_log
         \/ /\ num_failures = Len(outputs) /\ Len(outputs) # 0
            /\ stderr_log' = Dump(1..Len(outputs), Len(outputs))
            /\ Return([kind |-> "TestFailed", n |-> num_failures,
                       args |-> <<num_failures>>])
            /\ UNCHANGED stdout_log
    /\ UNCHANGED <<cases, i, outputs, origin, worker, chan, waited,
                   gate, detail, argv, proc, clock>>

\* Aggregate that dumps the failed cases only.
Aggregate_FailuresOnly ==
    /\ pc = "aggregate"
    /\ LET num_failures == Cardinality(Failures(outputs)) IN
         \/ /\ num_failures = 0
            /\ stdout_log' = Append(stdout_log,
                                    [kind |-> "summary", n |-> Len(cases)])
            /\ Return([kind |-> "Ok", n |-> 0, args |-> <<>>])
            /\ UNCHANGED stderr_log
         \/ /\ num_failures # 0
            /\ stderr_log' = Dump(Failures(outputs), Len(outputs))
            /\ Return([kind |-> "TestFailed", n |-> num_failures,
                       args |-> <<num_failures>>])
            /\ UNCHANGED stdout_log
    /\ UNCHANGED <<cases, i, outputs, origin, worker, chan, waited,
                   gate, detail, argv, proc, clock>>

\* After the loop: the summary line, or the dump of every case and TestFailed.
Aggregate ==
    /\ pc = "aggregate"
    /\ LET num_failures == Cardinality(Failures(outputs)) IN
         \/ /\ num_failures = 0
            /\ stdout_log' = Append(stdout_log,
                                    [kind |-> "summary", n |-> Len(cases)])
            /\ Return([kind |-> "Ok", n |-> 0, args |-> <<>>])
            /\ UNCHANGED stderr_log
         \/ /\ num_failures # 0
            /\ stderr_log' = Dump(1..Len(outputs), Len(outputs))
            /\ Return([kind |-> "TestFailed", n |-> num_failures,
                       args |-> <<num_failures>>])
            /\ UNCHANGED stdout_log
    /\ UNCHANGED <<cases, i, outputs, origin, worker, chan, waited,
                   gate, detail, argv, proc, clock>>

\* -------------------------------------------- the worker thread: run_program

\* Worker k is a live thread of the process.
Alive(k) ==
    /\ pc # "done"
    /\ worker[k].pc \in {"ready", "spawned", "written", "waited", "read"}

\* Send on one channel shared by the cases: the message goes to the receiver
\* the orchestrator is waiting on.
Send_Shared(k, m) ==
    LET to == IF i \in DOMAIN chan /\ chan[i].rx THEN i ELSE k IN
    chan' = [chan EXCEPT ![to].msg = IF chan[to].rx THEN <<m>> ELSE <<>>,
                         ![k].tx = FALSE]

\* tx.send(m), whose result is ignored, and the end of the thread: the
\* message is queued when the receiver still exists and is lost otherwise.
Send(k, m) ==
    chan' = [chan EXCEPT ![k].msg = IF chan[k].rx THEN <<m>> ELSE <<>>,
                         ![k].tx = FALSE]

\* Fail that reports the error as a RuntimeError verdict.
Fail_AsVerdict(k) ==
    /\ worker' = [worker EXCEPT ![k] = [NoWorker EXCEPT !.pc = "failed"]]
    /\ Send(k, [ok |-> TRUE,
                val |-> Re(0, cases[k].input, cases[k].expected, "", "", 1)])

\* An io::Error leaves run_program through `?` and is sent as Err.
Fail(k) ==
    /\ worker' = [worker EXCEPT ![k] = [NoWorker EXCEPT !.pc = "failed"]]
    /\ Send(k, [ok |-> FALSE, val |-> NoOutput])

\* StartChild whose child inherits the standard error of the harness and
\* writes to it.
StartChild_Inherit(k) ==
    /\ Alive(k)
    /\ worker[k].pc = "ready"
    /\ worker' = [worker EXCEPT ![k].pc = "spawned", ![k].t = 0]
    /\ stderr_log' = Append(stderr_log, [kind |-> "child", n |-> k])
    /\ UNCHANGED <<pc, cases, i, outputs, origin, chan, waited,
                   stdout_log, result, gate, detail, argv, proc, clock>>

\* spawn_piped and Instant::now: the child runs and the clock starts, or the
\* spawn fails.
StartChild(k) ==
    /\ Alive(k)
    /\ worker[k].pc = "ready"
    /\ \/ /\ worker' = [worker EXCEPT ![k].pc = "spawned", ![k].t = 0]
          /\ UNCHANGED chan
       \/ Fail(k)
    /\ UNCHANGED <<pc, cases, i, outputs, origin, waited,
                   stdout_log, stderr_log, result,
                   gate, detail, argv, proc, clock>>

\* write_all fails with a broken pipe: the child has closed its standard
\* input, by exiting with the given status, before the input was written.
\* The io::Error leaves run_program through `?` and is sent as Err.
BrokenPipe(k, status) ==
    /\ worker' = [worker EXCEPT ![k] = [NoWorker EXCEPT !.pc = "broken_pipe",
                                                        !.status = status]]
    /\ Send(k, [ok |-> FALSE, val |-> NoOutput])

\* write_all(input) on the child's stdin: done, or a broken pipe.
WriteInput(k) ==
    /\ Alive(k)
    /\ worker[k].pc = "spawned"
    /\ \/ /\ worker' = [worker EXCEPT ![k].pc = "written"]
          /\ UNCHANGED chan
       \/ \E status \in ExitCodes : BrokenPipe(k, status)
    /\ UNCHANGED <<pc, cases, i, outputs, origin, waited,
                   stdout_log, stderr_log, result,
                   gate, detail, argv, proc, clock>>

\* child.wait returns the exit status and start.elapsed is taken, or wait
\* fails.  A child that never exits leaves the worker here.
Wait(k) ==
    /\ Alive(k)
    /\ worker[k].pc = "written"
    /\ \/ /\ \E status \in ExitCodes :
                worker' = [worker EXCEPT ![k].pc = "waited",
                                         ![k].status = status]
          /\ UNCHANGED chan
       \/ Fail(k)
    /\ UNCHANGED <<pc, cases, i, outputs, origin, waited,
                   stdout_log, stderr_log, result,
                   gate, detail, argv, proc, clock>>

\* string_from_read(child.stdout): the text, or an error.
ReadStdout(k) ==
    /\ Alive(k)
    /\ worker[k].pc = "waited"
    /\ \/ /\ \E text \in Stdouts :
                worker' = [worker EXCEPT ![k].pc = "read",
                                         ![k].stdout = text]
          /\ UNCHANGED chan
       \/ Fail(k)
    /\ UNCHANGED <<pc, cases, i, outputs, origin, waited,
                   stdout_log, stderr_log, result,
                   gate, detail, argv, proc, clock>>

\* string_from_read(child.stderr), the classification and the send of its
\* result; or an error.
ReadStderr(k) ==
    /\ Alive(k)
    /\ worker[k].pc = "read"
    /\ \/ \E text \in Stderrs :
             /\ worker' = [worker EXCEPT ![k].pc = "sent", ![k].stderr = text]
             /\ Send(k, [ok |-> TRUE,
                         val |-> Classify(cases[k], worker[k].t,
                                          worker[k].status, worker[k].stdout,
                                          text)])
       \/ Fail(k)
    /\ UNCHANGED <<pc, cases, i, outputs, origin, waited,
                   stdout_log, stderr_log, result,
                   gate, detail, argv, proc, clock>>

\* The thread unwinds out of run_program (a panic): tx is dropped and
\* nothing is sent.
Panic(k) ==
    /\ Alive(k)
    /\ worker' = [worker EXCEPT ![k] = [NoWorker EXCEPT !.pc = "panicked"]]
    /\ chan' = [chan EXCEPT ![k].tx = FALSE]
    /\ UNCHANGED <<pc, cases, i, outputs, origin, waited,
                   stdout_log, stderr_log, result,
                   gate, detail, argv, proc, clock>>

\* ------------------------------------------------------------------- time

\* The clock of worker k, started by Instant::now, has not been read yet.
Timed(k) == worker[k].pc \in {"spawned", "written"}

\* The orchestrator is inside recv_timeout.
Waiting == pc = "recv" /\ is_some(cases[i].timelimit)

\* Time passes: by Quantum ms, and by less when recv_timeout expires earlier.
Tick ==
    /\ pc # "done"
    /\ LET d == IF Waiting
                THEN Min(Quantum,
                         RecvTimeout(unwrap(cases[i].timelimit)) - waited)
                ELSE Quantum
       IN /\ d > 0
          /\ waited' = IF Waiting THEN waited + d ELSE waited
          /\ worker' = [k \in DOMAIN worker |->
                           IF Timed(k)
                           THEN [worker[k] EXCEPT
                                    !.t = Min(worker[k].t + d, MaxElapsed)]
                           ELSE worker[k]]
    /\ UNCHANGED <<pc, cases, i, outputs, origin, chan,
                   stdout_log, stderr_log, result,
                   gate, detail, argv, proc, clock>>

\* ---------------------------------------------------------- specification

Next ==
    \/ Compile
    \/ Load
    \/ Spawn
    \/ Recv
    \/ Timeout
    \/ Disconnected
    \/ Aggregate
    \/ \E k \in 1..NumCases :
          \/ StartChild(k)
          \/ WriteInput(k)
          \/ Wait(k)
          \/ ReadStdout(k)
          \/ ReadStderr(k)
          \/ Panic(k)
    \/ Tick

Spec == Init /\ [][Next]_vars

\* The run in which the orchestrator's thread keeps being scheduled and time
\* keeps passing; nothing is assumed of the workers and the children, which
\* may stop anywhere for ever.
SpecFair ==
    /\ Init
    /\ [][Next]_vars
    /\ WF_vars(Compile)
    /\ WF_vars(Load)
    /\ WF_vars(Spawn)
    /\ WF_vars(Recv)
    /\ WF_vars(Timeout)
    /\ WF_vars(Disconnected)
    /\ WF_vars(Aggregate)
    /\ WF_vars(Tick)

\* The state of judge while a part of it is run on its own.
Idle ==
    /\ pc = "compile"
    /\ cases = <<>>
    /\ i = 1
    /\ outputs = <<>>
    /\ origin = <<>>
    /\ worker = [k \in 1..NumCases |-> NoWorker]
    /\ chan = [k \in 1..NumCases |-> NoChannel]
    /\ waited = 0
    /\ stdout_log = <<>>
    /\ stderr_log = <<>>
    /\ result = Pending
    /\ gate = PlainGate
    /\ detail = NoDetail

judge_vars == <<pc, cases, i, outputs, origin, worker, chan, waited,
                stdout_log, stderr_log, result, gate, detail>>

\* The computation of t on its own: an elapsed time and a limit are given,
\* and t is computed.
InitClock ==
    /\ Idle
    /\ argv = NoArgv
    /\ proc = NoProc
    /\ \E secs \in ElapsedSecs, subsec_nanos \in ElapsedNanos,
          timelimit \in TimeLimits :
          clock = [secs |-> secs, subsec_nanos |-> subsec_nanos,
                   timelimit |-> timelimit, t |-> None]

Measure ==
    /\ clock.t = None
    /\ clock' = [clock EXCEPT
                    !.t = Some(elapsed_millis(clock.secs, clock.subsec_nanos))]
    /\ UNCHANGED <<judge_vars, argv, proc>>

NextClock == Measure

SpecClock == InitClock /\ [][NextClock]_vars

\* CommandParameters::new on its own: a command string and a platform are
\* given and the parameters are made.
InitArgv ==
    /\ Idle
    /\ proc = NoProc
    /\ clock = NoClock
    /\ \E command \in Commands, windows \in BOOLEAN :
          argv = [command |-> command, windows |-> windows, params |-> None]

New ==
    /\ argv.params = None
    /\ argv' = [argv EXCEPT !.params = Some(new(argv.command, argv.windows))]
    /\ UNCHANGED <<judge_vars, proc, clock>>

NextArgv == New

SpecArgv == InitArgv /\ [][NextArgv]_vars

\* ------------------------------------------- a worker, its child, the pipes
\*
\* run_program and its child at the three pipes of spawn_piped.  The child
\* is a program that reads its whole input, writes some bytes to its stdout
\* and its stderr, in any order, and then exits.  A write to a pipe that
\* holds PipeCapacity bytes blocks, a read of an empty pipe blocks while the
\* other end is open.

InitPipes ==
    /\ Idle
    /\ argv = NoArgv
    /\ clock = NoClock
    /\ \E input \in 0..MaxBytes, out \in 0..MaxBytes, err \in 0..MaxBytes :
          proc = [wpc |-> "write_all", cpc |-> "running", input |-> input,
                  stdin |-> 0, stdin_open |-> TRUE, to_read |-> input,
                  out |-> out, err |-> err, stdout |-> 0, stderr |-> 0]

\* write_all(input): one more byte goes into the pipe, when it has room.
WorkerWrite ==
    /\ proc.wpc = "write_all"
    /\ proc.input > 0
    /\ proc.stdin < PipeCapacity
    /\ proc' = [proc EXCEPT !.input = @ - 1, !.stdin = @ + 1]
    /\ UNCHANGED <<judge_vars, argv, clock>>

\* write_all returns and child.wait() is called, which closes the child's
\* stdin first.
WorkerWritten ==
    /\ proc.wpc = "write_all"
    /\ proc.input = 0
    /\ proc' = [proc EXCEPT !.wpc = "wait", !.stdin_open = FALSE]
    /\ UNCHANGED <<judge_vars, argv, clock>>

\* child.wait() returns: the child has exited.
WorkerWait ==
    /\ proc.wpc = "wait"
    /\ proc.cpc = "exited"
    /\ proc' = [proc EXCEPT !.wpc = "string_from_read(stdout)"]
    /\ UNCHANGED <<judge_vars, argv, clock>>

\* string_from_read(child.stdout): the pipe is read to its end.
WorkerReadStdout ==
    /\ proc.wpc = "string_from_read(stdout)"
    /\ \/ /\ proc.stdout > 0
          /\ proc' = [proc EXCEPT !.stdout = @ - 1]
       \/ /\ proc.stdout = 0
          /\ proc.cpc = "exited"
          /\ proc' = [proc EXCEPT !.wpc = "string_from_read(stderr)"]
    /\ UNCHANGED <<judge_vars, argv, clock>>

\* string_from_read(child.stderr), after which run_program has its output.
WorkerReadStderr ==
    /\ proc.wpc = "string_from_read(stderr)"
    /\ \/ /\ proc.stderr > 0
          /\ proc' = [proc EXCEPT !.stderr = @ - 1]
       \/ /\ proc.stderr = 0
          /\ proc.cpc = "exited"
          /\ proc' = [proc EXCEPT !.wpc = "done"]
    /\ UNCHANGED <<judge_vars, argv, clock>>

\* The child reads a byte of its input.
ChildRead ==
    /\ proc.cpc = "running"
    /\ proc.to_read > 0
    /\ proc.stdin > 0
    /\ proc' = [proc EXCEPT !.to_read = @ - 1, !.stdin = @ - 1]
    /\ UNCHANGED <<judge_vars, argv, clock>>

\* The child writes a byte to its stdout, when the pipe has room.
ChildWriteStdout ==
    /\ proc.cpc = "running"
    /\ proc.out > 0
    /\ proc.stdout < PipeCapacity
    /\ proc' = [proc EXCEPT !.out = @ - 1, !.stdout = @ + 1]
    /\ UNCHANGED <<judge_vars, argv, clock>>

\* The child writes a byte to its stderr, when the pipe has room.
ChildWriteStderr ==
    /\ proc.cpc = "running"
    /\ proc.err > 0
    /\ proc.stderr < PipeCapacity
    /\ proc' = [proc EXCEPT !.err = @ - 1, !.stderr = @ + 1]
    /\ UNCHANGED <<judge_vars, argv, clock>>

\* The child has read its input and written its output, and exits.
ChildExit ==
    /\ proc.cpc = "running"
    /\ proc.to_read = 0
    /\ proc.out = 0
    /\ proc.err = 0
    /\ proc' = [proc EXCEPT !.cpc = "exited"]
    /\ UNCHANGED <<judge_vars, argv, clock>>

NextPipes ==
    \/ WorkerWrite
    \/ WorkerWritten
    \/ WorkerWait
    \/ WorkerReadStdout
    \/ WorkerReadStderr
    \/ ChildRead
    \/ ChildWriteStdout
    \/ ChildWriteStderr
    \/ ChildExit

SpecPipes == InitPipes /\ [][NextPipes]_vars

\* The run for every configuration of the compilation step, on case files
\* of at most one case.
NextGate ==
    \/ Compile
    \/ LoadShort
    \/ Spawn
    \/ Recv
    \/ Timeout
    \/ Disconnected
    \/ Aggregate
    \/ \E k \in 1..NumCases :
          \/ StartChild(k)
          \/ WriteInput(k)
          \/ Wait(k)
          \/ ReadStdout(k)
          \/ ReadStderr(k)
          \/ Panic(k)
    \/ Tick

SpecGate == InitGate /\ [][NextGate]_vars

\* eprint_details on its own: it is called on an output and writes its lines.
InitDetails ==
    /\ pc = "aggregate"
    /\ cases = <<>>
    /\ i = 1
    /\ outputs = <<>>
    /\ origin = <<>>
    /\ worker = [k \in 1..NumCases |-> NoWorker]
    /\ chan = [k \in 1..NumCases |-> NoChannel]
    /\ waited = 0
    /\ stdout_log = <<>>
    /\ stderr_log = <<>>
    /\ result = Pending
    /\ gate = PlainGate
    /\ \E output \in DetailOutputs : detail = [output |-> output, lines |-> <<>>]
    /\ argv = NoArgv
    /\ proc = NoProc
    /\ clock = NoClock

PrintDetails ==
    /\ detail.output.tag # Absent
    /\ detail.lines = <<>>
    /\ detail' = [detail EXCEPT !.lines = eprint_details(detail.output)]
    /\ UNCHANGED <<pc, cases, i, outputs, origin, worker, chan, waited,
                   stdout_log, stderr_log, result, gate, argv, proc, clock>>

NextDetails == PrintDetails

SpecDetails == InitDetails /\ [][NextDetails]_vars

\* ------------------------------------------------------------- properties

\* The cases that have an output.
Judged == 1..Len(outputs)

\* Worker k has measured a time over the limit of its case.
OverLimit(k) ==
    /\ is_some(cases[k].timelimit)
    /\ worker[k].t > unwrap(cases[k].timelimit)

\* The stdout of worker k passes the comparison with expected.
Matches(k) ==
    \/ cases[k].expected = ""
    \/ cases[k].expected = worker[k].stdout

\* C1: every output that came from the worker (the child exited and the
\* result was received) is TimeLimitExceeded(limit, input, expected) exactly
\* when a limit is set and the measured time is over it, whatever the exit
\* status and stdout; otherwise Accepted exactly when the exit succeeded and
\* expected is empty or equals stdout; otherwise WrongAnswer exactly when the
\* exit succeeded; otherwise RuntimeError with the exit status.
C1_VerdictPrecedence ==
    \A k \in Judged :
        origin[k] = "worker" =>
            LET o == outputs[k]
                w == worker[k]
            IN  /\ o.tag \in {"Tle", "Ac", "Wa", "Re"}
                /\ o.tag = "Tle" <=> OverLimit(k)
                /\ o.tag = "Ac" <=>
                      ~OverLimit(k) /\ w.status = 0 /\ Matches(k)
                /\ o.tag = "Wa" <=>
                      ~OverLimit(k) /\ w.status = 0 /\ ~Matches(k)
                /\ o.tag = "Re" <=> ~OverLimit(k) /\ w.status # 0
                /\ o.tag = "Tle" =>
                      /\ o.t = unwrap(cases[k].timelimit)
                      /\ o.input = cases[k].input
                      /\ o.expected = cases[k].expected
                /\ o.tag = "Re" => o.status = w.status
                /\ o.tag # "Tle" =>
                      /\ o.t = w.t
                      /\ o.stdout = w.stdout
                      /\ o.stderr = w.stderr

\* A received TimeLimitExceeded of a child that failed, and one of a child
\* that succeeded with the expected stdout.
C1_Witness ==
    \E k \in Judged :
        /\ origin[k] = "worker"
        /\ outputs[k].tag = "Tle"
        /\ worker[k].status # 0
        /\ \E j \in Judged :
              /\ origin[j] = "worker"
              /\ outputs[j].tag = "Tle"
              /\ worker[j].status = 0
              /\ cases[j].expected = worker[j].stdout

\* The child of case k has exited with success, within the limit of the
\* case, and expected is empty or equal to its stdout.
ChildPassed(k) ==
    /\ worker[k].pc \in {"waited", "read", "sent"}
    /\ worker[k].status = 0
    /\ ~OverLimit(k)
    /\ \/ cases[k].expected = ""
       \/ /\ worker[k].pc \in {"read", "sent"}
          /\ cases[k].expected = worker[k].stdout

\* C2 as stated: the output of a case is Accepted exactly when its child
\* exited with success, within the limit, with expected empty or equal to
\* stdout.
C2_AcceptedIffChildPassed ==
    \A k \in Judged : outputs[k].tag = "Ac" <=> ChildPassed(k)

\* C2 as amended: the output of a case is Accepted exactly when the worker's
\* result was received by the orchestrator (before the wait of limit + 50 ms
\* expired, when there is a limit) and the child exited with success, within
\* the limit, with expected empty or equal to stdout.
C2_AcceptedIffReceivedAndPassed ==
    \A k \in Judged :
        outputs[k].tag = "Ac" <=> (origin[k] = "worker" /\ ChildPassed(k))

\* An Accepted case with a limit and a non-empty expected, next to a case
\* whose child passed but whose wait had expired first.
C2_Witness ==
    /\ \E k \in Judged :
          /\ outputs[k].tag = "Ac"
          /\ is_some(cases[k].timelimit)
          /\ cases[k].expected # ""
    /\ \E k \in Judged :
          /\ origin[k] = "timeout"
          /\ ChildPassed(k)

\* C3: a case without a limit never has a TimeLimitExceeded output, and its
\* worker never sends one.
C3_NoLimitNoTle ==
    \A k \in 1..Len(cases) :
        ~is_some(cases[k].timelimit) =>
            /\ k \in Judged => outputs[k].tag # "Tle"
            /\ chan[k].msg # <<>> => chan[k].msg[1].val.tag # "Tle"

\* A case without a limit whose child ran for MaxElapsed ms has its output.
C3_Witness ==
    \E k \in Judged :
        /\ ~is_some(cases[k].timelimit)
        /\ origin[k] = "worker"
        /\ worker[k].t = MaxElapsed

\* C4 as stated: every TimeLimitExceeded output carries the limit, input and
\* expected of its case, and came either from a worker that measured a time
\* over the limit or from the wait of limit + 50 ms expiring with nothing
\* received.
C4_TleOnlyMeasuredOrExpired ==
    \A k \in Judged :
        outputs[k].tag = "Tle" =>
            /\ is_some(cases[k].timelimit)
            /\ outputs[k].t = unwrap(cases[k].timelimit)
            /\ outputs[k].input = cases[k].input
            /\ outputs[k].expected = cases[k].expected
            /\ \/ origin[k] = "worker" /\ OverLimit(k)
               \/ origin[k] = "timeout"

\* The last case that got its output, and waited is the time of its wait.
Last == Len(outputs)
WaitedForLast ==
    /\ Last >= 1
    /\ pc # "recv"
    /\ result.kind \notin {"Io", "Recv"}

\* C5: with a limit L the orchestrator is never inside its wait for more than
\* L + 50 ms; the output of an expired wait is TimeLimitExceeded(L, input,
\* expected), made at L + 50 ms, also when the child has not exited.
C5_BoundedWait ==
    /\ Waiting => waited <= unwrap(cases[i].timelimit) + 50
    /\ \A k \in Judged :
          origin[k] = "timeout" =>
              /\ is_some(cases[k].timelimit)
              /\ outputs[k] = Tle(unwrap(cases[k].timelimit),
                                  cases[k].input, cases[k].expected)
    /\ (WaitedForLast /\ is_some(cases[Last].timelimit)) =>
          /\ waited <= unwrap(cases[Last].timelimit) + 50
          /\ origin[Last] = "timeout" =>
                waited = unwrap(cases[Last].timelimit) + 50

\* The wait of a case has just expired while its child had not exited.
C5_Witness ==
    /\ WaitedForLast
    /\ origin[Last] = "timeout"
    /\ worker[Last].pc = "written"
    /\ waited = unwrap(cases[Last].timelimit) + 50

\* C6 as stated: a worker that ended without sending never gives its case an
\* output; the run fails instead, with or without a limit.
C6_DisconnectIsFatal ==
    /\ \A k \in Judged : origin[k] # "disconnected"
    /\ \A k \in 1..NumCases :
          (worker[k].pc = "panicked" /\ pc = "done" /\ i = k)
              => result.kind = "Recv"

\* Worker k has hit a spawn or I/O error.
Failed(k) == worker[k].pc \in {"failed", "broken_pipe"}

\* C7 as stated: a case whose worker hit a spawn or I/O error never has an
\* output, and a run that ends after such an error ends with it.
C7_ErrorNeverVerdict ==
    \A k \in 1..NumCases :
        Failed(k) =>
            /\ k \notin Judged
            /\ pc = "done" => result.kind = "Io"

\* C7 as amended: the worker sends a spawn or I/O error as an error, never
\* as a verdict; when the orchestrator receives it, the case gets no output
\* and the run fails with the error; when it is sent after the wait of
\* limit + 50 ms has expired it is lost, and the output of the case is the
\* TimeLimitExceeded made at the expiry.
C7_ErrorFatalUnlessLate ==
    /\ \A k \in 1..NumCases :
          Failed(k) =>
              /\ chan[k].msg # <<>> => ~chan[k].msg[1].ok
              /\ k \in Judged =>
                    /\ origin[k] = "timeout"
                    /\ outputs[k].tag = "Tle"
              /\ (k \notin Judged /\ pc = "done") =>
                    result = [kind |-> "Io", n |-> k, args |-> <<>>]
    /\ result.kind = "Io" =>
          /\ Failed(result.n)
          /\ Len(outputs) = result.n - 1

\* Case 1 timed out before its worker failed, and the error of case 2 was
\* received.
C7_Witness ==
    /\ NumCases >= 2
    /\ Failed(1)
    /\ 1 \in Judged
    /\ Failed(2)
    /\ result = [kind |-> "Io", n |-> 2, args |-> <<>>]

\* The titles of the cases 1..n, in order.
Titles(n) == [k \in 1..n |-> [kind |-> "title", n |-> k]]

\* C8: once the orchestrator has received an error for case k, judge has
\* returned that error; no worker was started and no child spawned for a
\* later case, nothing was written to standard error, and the titles of the
\* cases before k are all that was printed for the cases.
C8_AbortsAtOnce ==
    /\ \A k \in 1..NumCases :
          (Failed(k) /\ ~chan[k].rx /\ k \notin Judged) =>
              /\ pc = "done"
              /\ result = [kind |-> "Io", n |-> k, args |-> <<>>]
    /\ result.kind \in {"Io", "Recv"} =>
          /\ pc = "done"
          /\ \A j \in 1..NumCases : j > result.n => worker[j].pc = "unborn"
          /\ stderr_log = <<>>
          /\ stdout_log = Titles(result.n - 1)
          /\ Len(outputs) = result.n - 1

\* The run was aborted by the error of case 1 of two cases.
C8_Witness ==
    /\ result = [kind |-> "Io", n |-> 1, args |-> <<>>]
    /\ Len(cases) = 2
    /\ worker[2].pc = "unborn"

\* C9: an output that is no success does not end the run: while cases are
\* left judge has not returned a failure, and when judge returns Ok or
\* TestFailed every case has its output and had its worker started.
C9_FailuresRaisedAtEnd ==
    /\ result.kind \in {"Ok", "TestFailed"} =>
          /\ pc = "done"
          /\ Len(outputs) = Len(cases)
          /\ \A k \in 1..Len(cases) : worker[k].pc # "unborn"
    /\ pc # "done" => result.kind = "pending"

\* Case 1 of two failed and case 2 was still judged, and passed.
C9_Witness ==
    /\ result.kind = "TestFailed"
    /\ Len(cases) = 2
    /\ outputs[1].tag # "Ac"
    /\ outputs[2].tag = "Ac"

\* The number of outputs that are not Accepted.
RECURSIVE NotAccepted(_)
NotAccepted(outs) ==
    IF outs = <<>> THEN 0
    ELSE (IF Head(outs).tag = "Ac" THEN 0 ELSE 1) + NotAccepted(Tail(outs))

\* C10: when judge returns Ok or TestFailed there is one output per case,
\* the count carried by TestFailed is the number of outputs that are not
\* Accepted, and judge returns Ok exactly when that number is 0.
C10_Aggregate ==
    result.kind \in {"Ok", "TestFailed"} =>
        /\ Len(outputs) = Len(cases)
        /\ result.kind = "Ok" <=> NotAccepted(outputs) = 0
        /\ result.kind = "TestFailed" => result.n = NotAccepted(outputs)

\* A run of two cases of which exactly one is not Accepted.
C10_Witness ==
    /\ result.kind = "TestFailed"
    /\ result.n = 1
    /\ Len(cases) = 2
    /\ \E k \in Judged : outputs[k].tag = "Wa"

\* C11: the output at position k of the report is the output of case k of
\* the case file: it carries the input of case k, its expected text and its
\* limit where the variant has them, and when it came from a worker it is
\* what worker k made of its own child; the title printed for it carries
\* the number k.  This holds whatever the workers of earlier cases do.
C11_OutputIsOfItsCase ==
    /\ Len(outputs) <= Len(cases)
    /\ \A k \in Judged :
          /\ outputs[k].input = cases[k].input
          /\ outputs[k].tag \in {"Tle", "Wa", "Re"} =>
                outputs[k].expected = cases[k].expected
          /\ outputs[k].tag = "Tle" =>
                /\ is_some(cases[k].timelimit)
                /\ outputs[k].t = unwrap(cases[k].timelimit)
          /\ origin[k] = "worker" =>
                /\ worker[k].pc = "sent"
                /\ outputs[k] = Classify(cases[k], worker[k].t,
                                         worker[k].status, worker[k].stdout,
                                         worker[k].stderr)
    /\ Len(stdout_log) >= Len(outputs)
    /\ SubSeq(stdout_log, 1, Len(outputs)) = Titles(Len(outputs))

\* The wait for case 1 expired, its worker finished later with a failing
\* result of its own, and case 2 was accepted on the word of its own worker.
C11_Witness ==
    /\ Len(outputs) = 2
    /\ origin[1] = "timeout"
    /\ worker[1].pc = "sent"
    /\ worker[1].status # 0
    /\ origin[2] = "worker"
    /\ outputs[2].tag = "Ac"

\* C12 as stated: the workers (and with them the children) of two cases are
\* never alive at the same time.
C12_OneWorkerAlive ==
    \A j \in 1..NumCases, k \in 1..NumCases :
        (Alive(j) /\ Alive(k)) => j = k

\* The worker of case k is the one the orchestrator is waiting for.
Awaited(k) == pc = "recv" /\ k = i

\* C12: the cases are taken up one at a time: at most one receiver exists,
\* a worker is started only when every earlier case has its output, and a
\* live worker the orchestrator is not waiting for is the orphan of a wait
\* that expired.
C12_OneAwaitedWorker ==
    /\ \A j \in 1..NumCases, k \in 1..NumCases :
          (chan[j].rx /\ chan[k].rx) => j = k
    /\ \A k \in 1..NumCases :
          worker[k].pc # "unborn" =>
              /\ k <= i
              /\ \A j \in 1..(k - 1) : j \in Judged
    /\ \A k \in 1..NumCases :
          (Alive(k) /\ ~Awaited(k)) =>
              /\ k \in Judged
              /\ origin[k] = "timeout"
              /\ outputs[k].tag = "Tle"

\* The child of case 1, orphaned by the expired wait, and the child of case
\* 2 run at the same time.
C12_Witness ==
    /\ origin = <<"timeout">>
    /\ worker[1].pc = "spawned"
    /\ Awaited(2)
    /\ worker[2].pc = "spawned"

\* C13: no case is run twice: in every step, a channel is created and a
\* worker thread started (it becomes "ready") only for a case that never had
\* a worker, and a child is spawned (the worker becomes "spawned") only by a
\* worker that has not spawned one yet; a worker once started stays started.
C13_NoRetry ==
    [][\A k \in 1..NumCases :
          /\ (chan'[k].rx /\ ~chan[k].rx) => worker[k].pc = "unborn"
          /\ (worker'[k].pc = "ready" /\ worker'[k] # worker[k]) =>
                worker[k].pc = "unborn"
          /\ (worker'[k].pc = "spawned" /\ worker'[k].pc # worker[k].pc) =>
                worker[k].pc = "ready"
          /\ worker[k].pc # "unborn" => worker'[k].pc # "unborn"]_vars

\* Both waits expired and the run ended with two TimeLimitExceeded: neither
\* case was given a second worker.
C13_Witness ==
    /\ pc = "done"
    /\ origin = <<"timeout", "timeout">>
    /\ \A k \in 1..2 : worker[k].pc # "unborn"

\* C14: when the compilation command is run and exits with a non-zero
\* status, judge has returned CompilationFailure with that status, and no
\* case was attempted: the case file was not loaded, no channel and no worker
\* was made (so no child spawned), and no title or dump was printed.
C14_CompilationFailureStopsRun ==
    /\ (gate.runs >= 1 /\ ~status_success(gate.status)) =>
          /\ pc = "done"
          /\ result.kind = "CompilationFailure"
          /\ result.args = <<gate.status>>
    /\ result.kind = "CompilationFailure" =>
          /\ gate.runs = 1
          /\ ~status_success(gate.status)
          /\ cases = <<>>
          /\ outputs = <<>>
          /\ \A k \in 1..NumCases :
                worker[k] = NoWorker /\ chan[k] = NoChannel
          /\ stdout_log = <<>>
          /\ stderr_log = <<>>

\* The binary was missing, its directory was created, and the command then
\* exited with status 1.
C14_Witness ==
    /\ result.kind = "CompilationFailure"
    /\ result.args = <<1>>
    /\ gate.created

\* The claim's condition for leaving the command out: no compilation command,
\* or a src_and_bin whose two times can both be read, with src older than bin.
StatedSkip ==
    \/ gate.compilation_command = None
    \/ /\ is_some(gate.compilation_command)
       /\ is_some(unwrap(gate.compilation_command).src_and_bin)
       /\ LET pair == unwrap(unwrap(gate.compilation_command).src_and_bin) IN
            /\ pair[1].meta /\ is_some(pair[1].modified)
            /\ pair[2].meta /\ is_some(pair[2].modified)
            /\ unwrap(pair[1].modified) < unwrap(pair[2].modified)

\* The compilation step ended in an error of its own.
CompileError == result.kind \in {"CompilationFailure", "CompilationIo"}

\* C15 as stated: once the compilation step is over, the command was left
\* out, with success, exactly under the stated condition, and was run exactly
\* once in every other situation.
C15_RunsOnceUnlessUpToDate ==
    pc # "compile" =>
        /\ StatedSkip => (gate.runs = 0 /\ ~CompileError)
        /\ ~StatedSkip => gate.runs = 1

\* create_dir_all failed: the directory of bin is still missing and judge
\* returned the I/O error.
DirFailed ==
    /\ result.kind = "CompilationIo"
    /\ ~gate.dir

\* C15: the compilation step comes before every case and runs the command at
\* most once; the command is left out, with success, exactly under the
\* stated condition; in every other situation it is run exactly once, unless
\* the directory of bin is missing and cannot be created, and then it is not
\* run and judge returns that error.
C15_RunsOnceUnlessUpToDateOrNoDir ==
    /\ gate.runs <= 1
    /\ pc = "compile" =>
          /\ gate.runs = 0
          /\ cases = <<>>
          /\ \A k \in 1..NumCases : worker[k] = NoWorker
    /\ pc # "compile" =>
          /\ StatedSkip => (gate.runs = 0 /\ ~CompileError)
          /\ (StatedSkip /\ is_some(gate.compilation_command)) <=> gate.skipped
          /\ ~StatedSkip => (IF DirFailed THEN gate.runs = 0 ELSE gate.runs = 1)
          /\ DirFailed => ~StatedSkip

\* src and bin have the same time, the command was run once, and a case got
\* its output afterwards.
C15_Witness ==
    /\ is_some(gate.compilation_command)
    /\ is_some(unwrap(gate.compilation_command).src_and_bin)
    /\ LET pair == unwrap(unwrap(gate.compilation_command).src_and_bin) IN
         /\ pair[1].modified = Some(1)
         /\ pair[2].modified = Some(1)
    /\ gate.runs = 1
    /\ Len(outputs) = 1

\* The compilation command was run and exited with a non-zero status.
CompilationFailed == gate.runs >= 1 /\ ~status_success(gate.status)

\* judge returned an error of the infrastructure: the command or the
\* directory of the compilation step, the case file, a worker's spawn or
\* I/O, or the channel.
InfraError == result.kind \in {"CompilationIo", "Load", "Io", "Recv"}

\* Every case of the file has an output and every output is Ac.
AllAccepted ==
    /\ Len(outputs) = Len(cases)
    /\ \A k \in Judged : outputs[k].tag = "Ac"

\* C16: when judge has returned, it returned Ok exactly when the compilation
\* did not fail, no error of the infrastructure was returned and every case
\* is accepted; a failed compilation gives CompilationFailure, and a case
\* that is not accepted, in a run that judged every case, gives TestFailed.
C16_OkIffAllPass ==
    pc = "done" =>
        /\ result.kind = "Ok" <=>
              (~CompilationFailed /\ ~InfraError /\ AllAccepted)
        /\ CompilationFailed => result.kind = "CompilationFailure"
        /\ (~AllAccepted /\ Len(outputs) = Len(cases)) =>
              result.kind = "TestFailed"
        /\ result.kind \in {"Ok", "CompilationFailure", "TestFailed"}
              \/ InfraError

\* The command compiled, both cases were accepted, and judge returned Ok.
C16_Witness ==
    /\ result.kind = "Ok"
    /\ gate.runs = 1
    /\ Len(cases) = 2
    /\ AllAccepted

\* C17 as stated: the TestFailed that judge returns carries two numbers, the
\* number of outputs that are not Ac and the number of cases.
C17_TestFailedCarriesTotal ==
    result.kind = "TestFailed" =>
        result.args = <<NotAccepted(outputs), Len(cases)>>

\* C18: judge writes to standard error only at the end and only when it
\* returns TestFailed.  When it returns Ok, standard error is empty and
\* standard output holds the titles and then the summary line.  When it
\* returns TestFailed, standard error holds, for every case in the order of
\* the file, accepted ones included, its title and then its details, and no
\* summary line was printed.
C18_DumpOnlyOnFailure ==
    /\ stderr_log # <<>> => result.kind = "TestFailed"
    /\ result.kind = "Ok" =>
          /\ stderr_log = <<>>
          /\ stdout_log = Titles(Len(cases))
                              \o <<[kind |-> "summary", n |-> Len(cases)]>>
    /\ result.kind = "TestFailed" =>
          /\ Len(stderr_log) = 2 * Len(cases)
          /\ \A k \in 1..Len(cases) :
                /\ stderr_log[2 * k - 1] = [kind |-> "title", n |-> k]
                /\ stderr_log[2 * k] = [kind |-> "details", n |-> k]
          /\ stdout_log = Titles(Len(cases))

\* Case 1 was accepted, case 2 was not, and the dump holds both.
C18_Witness ==
    /\ result.kind = "TestFailed"
    /\ Len(outputs) = 2
    /\ outputs[1].tag = "Ac"
    /\ outputs[2].tag # "Ac"
    /\ Len(stderr_log) = 4

\* The orchestrator took what worker k sent: an output, or the error that
\* ended the run at case k.
Received(k) ==
    \/ k \in Judged /\ origin[k] = "worker"
    \/ result.kind = "Io" /\ result.n = k

\* The child of case k exited with a non-zero status and wrote nothing, within
\* the limit of the case: after the worker had written the input, or before.
ExitedSilently(k) ==
    /\ worker[k].status # 0
    /\ \/ /\ worker[k].pc = "sent"
          /\ worker[k].stdout = ""
          /\ worker[k].stderr = ""
          /\ ~OverLimit(k)
       \/ worker[k].pc = "broken_pipe"

StatedBody(size) ==
    IF size > 10 * 1024 * 1024
    THEN Line("OMITTED", "MB", size \div (1024 * 1024))
    ELSE IF size > 10 * 1024
    THEN Line("OMITTED", "KB", size \div 1024)
    ELSE IF size = 0
    THEN Line("EMPTY", "", 0)
    ELSE Line("content", "", size)

Body(size) ==
    IF size = 0
    THEN Line("EMPTY", "", 0)
    ELSE IF size <= 1024
    THEN Line("content", "", size)
    ELSE IF size <= 10 * 1024
    THEN Line("OMITTED", "B", size)
    ELSE IF size <= 10 * 1024 * 1024
    THEN Line("OMITTED", "KB", size \div 1024)
    ELSE Line("OMITTED", "MB", size \div (1024 * 1024))

\* The contents the variant of an output has.
Contents(output) ==
    CASE output.tag = "Ac" -> {output.input, output.stdout, output.stderr}
      [] output.tag = "Tle" -> {output.input, output.expected}
      [] OTHER -> {output.input, output.expected, output.stdout,
                   output.stderr}

Central(tag) ==
    CASE tag = "Ac" -> {"input", "stdout"}
      [] tag = "Tle" -> {"input"}
      [] tag = "Wa" -> {"input", "expected", "stdout"}
      [] tag = "Re" -> {"input", "stderr"}

\* The sections of the dump of a variant that are left out when empty.
Optional(tag) ==
    CASE tag = "Ac" -> {"stderr"}
      [] tag = "Tle" -> {"expected"}
      [] tag = "Wa" -> {"stderr"}
      [] tag = "Re" -> {"expected", "stdout"}

\* The labels and the number of bodies and of EMPTY lines of the dump.
Labels == {detail.lines[j].text :
              j \in {n \in DOMAIN detail.lines :
                        detail.lines[n].kind = "label"}}
Bodies == {j \in DOMAIN detail.lines : detail.lines[j].kind # "label"}
Empties == {j \in DOMAIN detail.lines : detail.lines[j].kind = "EMPTY"}

\* C21: in the dump of an output the section input is shown for every
\* variant, and so are expected and stdout for Wa (and stdout for Ac, stderr
\* for Re), as EMPTY when empty; stderr for Ac and Wa, expected for Tle and
\* Re and stdout for Re are left out altogether when empty, with no label
\* and no EMPTY line; no other section is ever shown, so Tle shows neither
\* stdout nor stderr.
C21_SectionsByVariant ==
    detail.lines # <<>> =>
        LET tag == detail.output.tag
            shown == Central(tag) \cup
                         {h \in Optional(tag) : detail.output[h] > 0}
        IN /\ detail.lines[1] = Line("label", "input", 0)
           /\ Central(tag) \subseteq Labels
           /\ Labels \subseteq shown
           /\ Cardinality(Bodies) = Cardinality(shown)
           /\ Cardinality(Empties) =
                 Cardinality({h \in Central(tag) : detail.output[h] = 0})

\* A Wa whose contents are all empty was dumped: input, expected and stdout
\* as EMPTY and no stderr.
C21_Witness ==
    /\ detail.output = Sized("Wa", 0, 0, 0, 0)
    /\ Labels = {"input", "expected", "stdout"}
    /\ Cardinality(Empties) = 3

\* C30 as stated: every body of the dump (a content, EMPTY or an OMITTED
\* line) comes right after a label line.
C30_BodyHasLabel ==
    \A j \in DOMAIN detail.lines :
        detail.lines[j].kind # "label" =>
            /\ j > 1
            /\ detail.lines[j - 1].kind = "label"

\* C22: while the cases are judged, standard output holds exactly the titles
\* of the cases that have their output, in the order of the file; so the
\* title of case k is there as soon as its output is, and before the worker
\* of any later case is started.
C22_TitleAsEachArrives ==
    /\ pc \in {"judge_one", "recv", "aggregate"} =>
          stdout_log = Titles(Len(outputs))
    /\ \A k \in 1..NumCases :
          worker[k].pc # "unborn" =>
              /\ Len(stdout_log) >= k - 1
              /\ \A j \in 1..(k - 1) :
                    stdout_log[j] = [kind |-> "title", n |-> j]

\* The title of case 1 is printed and the worker of case 2 of two cases is
\* not started yet.
C22_Witness ==
    /\ Len(cases) = 2
    /\ stdout_log = Titles(1)
    /\ worker[2].pc = "unborn"
    /\ pc = "judge_one"

\* C23: a step that writes to standard output or standard error is a step
\* of the orchestrator, at its receive or after the loop, and no step of a
\* worker, awaited or orphaned: it leaves every worker as it is.
C23_OnlyOrchestratorWrites ==
    [][(stdout_log' # stdout_log \/ stderr_log' # stderr_log) =>
          /\ pc \in {"recv", "aggregate"}
          /\ pc' # pc
          /\ worker' = worker]_vars

\* The title of case 2 was printed while the orphaned worker of case 1 was
\* still running its child.
C23_Witness ==
    /\ Len(stdout_log) = 2
    /\ origin[1] = "timeout"
    /\ worker[1].pc = "spawned"
    /\ pc = "aggregate"

\* The compilation command has a src_and_bin.
Paired ==
    /\ is_some(gate.compilation_command)
    /\ is_some(unwrap(gate.compilation_command).src_and_bin)

\* C24: when the compilation command of a configuration with src_and_bin
\* was run, the directory of bin existed when it was started; where the
\* directory was missing it was made first.
C24_DirExistsAtRun ==
    (Paired /\ gate.runs >= 1) =>
        /\ gate.dir_at_run
        /\ gate.dir
        /\ gate.created =>
              ~(unwrap(unwrap(gate.compilation_command).src_and_bin)[1].meta
                /\ unwrap(unwrap(gate.compilation_command).src_and_bin)[2].meta)

\* src is there, bin and its directory were missing; the directory was made
\* and the command then ran with success.
C24_Witness ==
    /\ Paired
    /\ unwrap(unwrap(gate.compilation_command).src_and_bin)[1].meta
    /\ ~unwrap(unwrap(gate.compilation_command).src_and_bin)[2].meta
    /\ gate.created
    /\ gate.runs = 1
    /\ gate.dir_at_run
    /\ pc = "load"

\* C26: once the wait for case k has expired its output is and stays the
\* Tle made for case k: the receiver of its channel is gone, nothing is ever
\* queued there, and the worker that sends later just ends ("sent").  The
\* output of every case is what its own worker classified or the Tle made
\* for that case.
C26_LateSendDiscarded ==
    /\ \A k \in Judged :
          origin[k] = "timeout" =>
              /\ outputs[k] = Tle(unwrap(cases[k].timelimit), cases[k].input,
                                  cases[k].expected)
              /\ ~chan[k].rx
              /\ chan[k].msg = <<>>
              /\ worker[k].pc \in {"sent", "failed", "broken_pipe"} =>
                    ~chan[k].tx
    /\ \A j \in Judged :
          \/ /\ origin[j] = "worker"
             /\ outputs[j] = Classify(cases[j], worker[j].t, worker[j].status,
                                      worker[j].stdout, worker[j].stderr)
          \/ /\ origin[j] \in {"timeout", "disconnected"}
             /\ outputs[j] = Tle(unwrap(cases[j].timelimit), cases[j].input,
                                 cases[j].expected)

\* The worker of case 1 sent an Ac after its wait had expired, while the
\* orchestrator was waiting for case 2; case 1 stays Tle and the channel of
\* case 2 is empty.
C26_Witness ==
    /\ origin = <<"timeout">>
    /\ worker[1].pc = "sent"
    /\ Classify(cases[1], worker[1].t, worker[1].status, worker[1].stdout,
                worker[1].stderr).tag = "Ac"
    /\ outputs[1].tag = "Tle"
    /\ Awaited(2)
    /\ chan[2].msg = <<>>
    /\ chan[2].tx

\* The case file is loaded and every case of it has a limit.
AllLimited ==
    /\ pc \notin {"compile", "load"}
    /\ \A k \in 1..Len(cases) : is_some(cases[k].timelimit)

\* judge has returned: with an error, or with Ok or TestFailed and an output
\* for every case.
Returned ==
    /\ pc = "done"
    /\ result.kind # "pending"
    /\ result.kind \in {"Ok", "TestFailed"} => Len(outputs) = Len(cases)

\* C27: when every case of the loaded file has a limit, judge returns, with
\* the full report or with an error, whatever the workers and the children
\* do or fail to do.
C27_TerminatesWithLimits == AllLimited ~> Returned

\* Neither child ever exited: both workers are still in wait, both waits
\* expired, and judge has returned TestFailed for the two cases.
C27_Witness ==
    /\ Returned
    /\ result.kind = "TestFailed"
    /\ origin = <<"timeout", "timeout">>
    /\ worker[1].pc = "written"
    /\ worker[2].pc = "written"

\* The elapsed time of the clock in nanoseconds.
ElapsedNs == 1000000000 * clock.secs + clock.subsec_nanos

\* C29: the t computed from an elapsed time is that time rounded up to whole
\* milliseconds, and for every limit in whole milliseconds t is over the
\* limit exactly when the elapsed time itself is over it; an elapsed time of
\* exactly the limit is not over it.
C29_RoundedUpKeepsOrder ==
    is_some(clock.t) =>
        /\ 1000000 * unwrap(clock.t) >= ElapsedNs
        /\ 1000000 * unwrap(clock.t) < ElapsedNs + 1000000
        /\ unwrap(clock.t) > clock.timelimit
              <=> ElapsedNs > 1000000 * clock.timelimit
        /\ ElapsedNs = 1000000 * clock.timelimit
              => ~(unwrap(clock.t) > clock.timelimit)

\* An elapsed time of 25 ms and 1 ns against a limit of 25 ms: t is 26, over
\* the limit.
C29_Witness ==
    /\ clock.secs = 0
    /\ clock.subsec_nanos = 25000001
    /\ clock.timelimit = 25
    /\ clock.t = Some(26)

\* The command string has one of the characters @#$^&*;|?\<>()[]{}'".
HasSpecial ==
    \E n \in 1..Len(argv.command) :
        argv.command[n] \in {"@", "#", "$", "^", "&", "*", ";", "|", "?",
                             "\\", "<", ">", "(", ")", "[", "]", "{", "}",
                             "'", "\""}
\* The command string has a blank.
HasBlank == \E n \in 1..Len(argv.command) : argv.command[n] = " "

\* The characters of a sequence of words, in order.
RECURSIVE Flatten(_)
Flatten(words) ==
    IF words = <<>> THEN <<>> ELSE words[1] \o Flatten(Tail(words))

\* The command string without its blanks.
Unblanked == SelectSeq(argv.command, LAMBDA c : c # " ")

\* The shell and its flag for the platform, with the whole command.
Wrapped ==
    [arg0 |-> IF argv.windows THEN <<"c", "m", "d">> ELSE <<"s", "h">>,
     rest_args |-> <<IF argv.windows THEN <<"/", "C">> ELSE <<"-", "c">>,
                     argv.command>>]

\* C25 as stated: a command with a special character becomes the shell with
\* the whole command; else a command with a blank is split into arg0 and the
\* remaining arguments, none of them empty and none with a blank, which
\* together hold the characters of the command; else the command is arg0.
C25_ArgvAsStated ==
    is_some(argv.params) =>
        LET params == unwrap(argv.params)
            args == <<params.arg0>> \o params.rest_args
        IN IF HasSpecial
           THEN params = Wrapped
           ELSE IF HasBlank
           THEN /\ \A n \in 1..Len(args) :
                      /\ args[n] # <<>>
                      /\ \A m \in 1..Len(args[n]) : args[n][m] # " "
                /\ Flatten(args) = Unblanked
           ELSE params = [arg0 |-> argv.command, rest_args |-> <<>>]

\* C25: as stated, but in a command of blanks only there is nothing to split:
\* arg0 is the empty string and there are no further arguments.
C25_ArgvUnlessBlank ==
    is_some(argv.params) =>
        LET params == unwrap(argv.params)
            args == <<params.arg0>> \o params.rest_args
        IN IF HasSpecial
           THEN params = Wrapped
           ELSE IF HasBlank /\ Unblanked = <<>>
           THEN params = [arg0 |-> <<>>, rest_args |-> <<>>]
           ELSE IF HasBlank
           THEN /\ \A n \in 1..Len(args) :
                      /\ args[n] # <<>>
                      /\ \A m \in 1..Len(args[n]) : args[n][m] # " "
                /\ Flatten(args) = Unblanked
                /\ Len(args) =
                      Cardinality({n \in 1..Len(argv.command) :
                          /\ argv.command[n] # " "
                          /\ (n = 1 \/ argv.command[n - 1] = " ")})
           ELSE params = [arg0 |-> argv.command, rest_args |-> <<>>]

\* "a &b", which has a blank and a special character, became sh -c "a &b".
C25_Witness ==
    /\ argv.command = <<"a", " ", "&", "b">>
    /\ ~argv.windows
    /\ argv.params = Some([arg0 |-> <<"s", "h">>,
                           rest_args |-> <<<<"-", "c">>,
                                           <<"a", " ", "&", "b">>>>])

\* C28 as stated, in the form of a finite run: the worker and its child are
\* never both blocked for good; as long as run_program has not got its
\* output, the worker or the child can take a step.
C28_NeverStuck ==
    proc.wpc \notin {"none", "done"} =>
        \/ ENABLED WorkerWrite
        \/ ENABLED WorkerWritten
        \/ ENABLED WorkerWait
        \/ ENABLED WorkerReadStdout
        \/ ENABLED WorkerReadStderr
        \/ ENABLED ChildRead
        \/ ENABLED ChildWriteStdout
        \/ ENABLED ChildWriteStderr
        \/ ENABLED ChildExit

====
